---- MODULE Spec2Model ----
(***************************************************************************)
(* Model of src/agGrid.tsx: the AgGridCommunityDemo React component.       *)
(*                                                                         *)
(* Three state machines share the module:                                  *)
(*   Spec       the row list (rowData) under add / delete / toggle / reset *)
(*   GridSpec   the grid API reference, the deferred auto-fit timer, the   *)
(*              column state and the local-storage key                     *)
(*   FormatSpec the pure helper formatCurrency applied to JavaScript values*)
(*                                                                         *)
(* JavaScript strings that the code builds, compares or parses are         *)
(* sequences of one-character strings, so that String(id), template        *)
(* literals, toFixed, toISOString and Number(...) are computed and not     *)
(* assumed.                                                                *)
(***************************************************************************)
EXTENDS Integers, Sequences, FiniteSets, TLC

VARIABLES
    rowData,      \* useState(generateData()): the ordered row list
    last,         \* the row-list event handled last: [op, id, ok, n], n the
                  \* length of the list the handler started from
    session,      \* shape of the bounded user session: "mixed" or "drain"
    budget,       \* events the bounded session may still spend
    gridRef,      \* gridRef.current: "null" or "api"
    timers,       \* pending setTimeout(sizeColumnsToFit, 0) callbacks
    columnState,  \* the widget's column layout
    storage,      \* localStorage item 'ag-grid-column-state'
    quickFilter,  \* the widget's quick-filter text
    exported,     \* whether a CSV export has been produced
    gridLog,      \* outcome of the widget-side handler run last
    fmtIn,        \* argument handed to formatCurrency
    fmtOut        \* value formatCurrency returned for fmtIn

rowVars  == <<rowData, last, session, budget>>
gridVars == <<gridRef, timers, columnState, storage, quickFilter, exported, gridLog>>
fmtVars  == <<fmtIn, fmtOut>>
vars     == <<rowData, last, session, budget, gridRef, timers, columnState,
              storage, quickFilter, exported, gridLog, fmtIn, fmtOut>>

(***************************************************************************)
(* Bounds of the model (not program constants).                            *)
(***************************************************************************)
MaxEvents == 3

(***************************************************************************)
(* Program constants.                                                      *)
(***************************************************************************)
RowCount == 100

(***************************************************************************)
(* JavaScript strings as character sequences.                              *)
(***************************************************************************)
Digits == <<"0", "1", "2", "3", "4", "5", "6", "7", "8", "9">>

DigitChar(d) == Digits[d + 1]

\* String(n) / `${n}` for a non-negative integer n: its decimal digits.
RECURSIVE NumberToString(_)
NumberToString(n) ==
    IF n < 10 THEN <<DigitChar(n)>>
    ELSE NumberToString(n \div 10) \o <<DigitChar(n % 10)>>

\* String(x) as used by String(r.id) and String(id): a number is written in
\* decimal, a string is returned as it is.
ToStringId(n) == NumberToString(n)

\* Two-digit, zero-padded decimal (month and day of an ISO date, cents).
Pad2(n) == <<DigitChar((n \div 10) % 10), DigitChar(n % 10)>>

\* Four-digit year of an ISO date.
Pad4(n) == <<DigitChar((n \div 1000) % 10), DigitChar((n \div 100) % 10)>> \o Pad2(n % 100)

UndefinedText == <<"u", "n", "d", "e", "f", "i", "n", "e", "d">>

(***************************************************************************)
(* The environment of one handler call: the stream Math.random() draws     *)
(* from (unseeded, so chosen nondeterministically), whether the local time *)
(* zone is east of UTC, and the current UTC date.                          *)
(***************************************************************************)
RandDen == 7

Envs == { [seed |-> 1, tzEast |-> FALSE, today |-> <<2026, 1, 31>>],
          [seed |-> 4, tzEast |-> TRUE,  today |-> <<2026, 3, 1>>] }

\* The j-th value Math.random() returns in environment e, in units of
\* 1/RandDen: a value in [0, 1).
MathRandom(e, j) == (e.seed * 3 + j * 5) % RandDen

\* Math.floor(Math.random() * 60) + 18
RandomAge(u) == ((u * 60) \div RandDen) + 18

\* (Math.random() * 1000).toFixed(2): the amount rounded to cents, written
\* with two decimals.
RandomAmount(u) ==
    LET cents == (u * 100000 * 2 + RandDen) \div (2 * RandDen)
    IN  NumberToString(cents \div 100) \o <<".">> \o Pad2(cents % 100)

(***************************************************************************)
(* Dates: new Date(y, m0, d) is local midnight; toISOString() is the UTC   *)
(* instant, which east of UTC falls on the previous calendar day.          *)
(***************************************************************************)
IsLeap(y) == (y % 4 = 0 /\ y % 100 # 0) \/ y % 400 = 0

DaysInMonth(y, m) ==
    IF m = 2 THEN (IF IsLeap(y) THEN 29 ELSE 28)
    ELSE IF m \in {4, 6, 9, 11} THEN 30 ELSE 31

PrevDay(d) ==
    IF d[3] > 1 THEN <<d[1], d[2], d[3] - 1>>
    ELSE IF d[2] > 1 THEN <<d[1], d[2] - 1, DaysInMonth(d[1], d[2] - 1)>>
    ELSE <<d[1] - 1, 12, 31>>

\* toISOString().slice(0,10) of a UTC date <<y, m, d>>.
IsoDate(d) == Pad4(d[1]) \o <<"-">> \o Pad2(d[2]) \o <<"-">> \o Pad2(d[3])

\* new Date(2020 + (i % 6), (i % 12), (i % 28) + 1).toISOString().slice(0,10)
JoinedDate(i, e) ==
    LET local == <<2020 + (i % 6), (i % 12) + 1, (i % 28) + 1>>
    IN  IsoDate(IF e.tzEast THEN PrevDay(local) ELSE local)

(***************************************************************************)
(* generateData                                                            *)
(***************************************************************************)
cities == <<"São Paulo", "Rio de Janeiro", "Belo Horizonte", "Porto Alegre", "Curitiba",
            "Salvador", "Fortaleza", "Recife", "Manaus", "Brasília">>

products == <<"Vinho", "Café", "Queijo", "Cerveja", "Chocolate",
              "Azeite", "Pão", "Suco", "Arroz", "Feijão">>

ClienteText == <<"C", "l", "i", "e", "n", "t", "e", " ">>

\* Faulty variant of GeneratedRow: the activity test taken modulo 2.
GeneratedRowEveryOther(i, e) ==
    [ id      |-> i,
      name    |-> ClienteText \o NumberToString(i),
      age     |-> RandomAge(MathRandom(e, 2 * i - 1)),
      city    |-> cities[(i % Len(cities)) + 1],
      product |-> products[(i % Len(products)) + 1],
      amount  |-> RandomAmount(MathRandom(e, 2 * i)),
      active  |-> (i % 2 # 0),
      joined  |-> JoinedDate(i, e) ]

\* The record pushed by iteration i of the loop; iteration i makes the
\* draws 2i-1 (age) and 2i (amount) of the stream.
GeneratedRow(i, e) ==
    [ id      |-> i,
      name    |-> ClienteText \o NumberToString(i),
      age     |-> RandomAge(MathRandom(e, 2 * i - 1)),
      city    |-> cities[(i % Len(cities)) + 1],
      product |-> products[(i % Len(products)) + 1],
      amount  |-> RandomAmount(MathRandom(e, 2 * i)),
      active  |-> (i % 3 # 0),
      joined  |-> JoinedDate(i, e) ]

\* Faulty variant of generateData: the loop counting from 0 (i = 0; i < 100).
generateDataFromZero(e) == [i \in 1..RowCount |-> GeneratedRow(i - 1, e)]

\* for (let i = 1; i <= 100; i++) rows.push({...}); return rows
generateData(e) == [i \in 1..RowCount |-> GeneratedRow(i, e)]

(***************************************************************************)
(* Array helpers used by the handlers.                                     *)
(***************************************************************************)
\* Math.max(...prev.map(r => r.id)) of a non-empty list
MaxId(rows) ==
    LET ids == { rows[k].id : k \in 1..Len(rows) }
    IN  CHOOSE m \in ids : \A n \in ids : n <= m

(***************************************************************************)
(* Row-list handlers.                                                      *)
(***************************************************************************)
\* Faulty variant of NextId: the next id taken from the list length.
NextIdFromLength(prev) == Len(prev) + 1

\* Faulty variant of NextId: the next id taken from the head row.
NextIdFromHead(prev) == (IF Len(prev) # 0 THEN prev[1].id ELSE 0) + 1

\* (prev.length ? Math.max(...prev.map(r => r.id)) : 0) + 1
NextId(prev) == (IF Len(prev) # 0 THEN MaxId(prev) ELSE 0) + 1

\* The record onAddRow builds for nextId.
NewRow(nextId, e) ==
    [ id      |-> nextId,
      name    |-> ClienteText \o NumberToString(nextId),
      age     |-> RandomAge(MathRandom(e, 1)),
      city    |-> <<"São Paulo", "Rio de Janeiro", "Belo Horizonte", "Porto Alegre">>[(nextId % 4) + 1],
      product |-> <<"Vinho", "Café", "Queijo">>[(nextId % 3) + 1],
      amount  |-> RandomAmount(MathRandom(e, 2)),
      active  |-> TRUE,
      joined  |-> IsoDate(e.today) ]

\* setRowData(prev => [newRow, ...prev])
AddRowUpdate(prev, e) == <<NewRow(NextId(prev), e)>> \o prev

\* Faulty variant of DeleteUpdate: r.id !== id without String(): a number never
\* equals the data-id text, so every row is kept.
DeleteUpdateStrict(prev, id) ==
    LET keep(r) == TRUE
    IN  SelectSeq(prev, keep)

\* setRowData(prev => prev.filter(r => String(r.id) !== String(id))); filter
\* keeps the elements that pass the test, in their order.
DeleteUpdate(prev, id) ==
    LET keep(r) == ToStringId(r.id) # id
    IN  SelectSeq(prev, keep)

\* Faulty variant of ToggleUpdate: the matching row is deactivated, not toggled.
ToggleUpdateDeactivate(prev, id) ==
    [k \in 1..Len(prev) |->
        IF ToStringId(prev[k].id) = id
        THEN [prev[k] EXCEPT !.active = FALSE]
        ELSE prev[k]]

\* setRowData(prev => prev.map(r => String(r.id) === String(id)
\*                                   ? { ...r, active: !r.active } : r))
ToggleUpdate(prev, id) ==
    [k \in 1..Len(prev) |->
        IF ToStringId(prev[k].id) = id
        THEN [prev[k] EXCEPT !.active = ~prev[k].active]
        ELSE prev[k]]

(***************************************************************************)
(* Click events delivered to onCellClicked.  `action` and `id` are the     *)
(* data-action and data-id attributes of the clicked element; "" and <<>>  *)
(* stand for an absent (undefined) attribute, which the code treats like   *)
(* the empty string.  The action cell renderer writes data-id as           *)
(* `${params.data?.id}`: the digits of a rendered row's id, or the text    *)
(* "undefined" for a row without data.                                     *)
(***************************************************************************)
NoBrowserEvent == [hasEvent |-> FALSE, hasTarget |-> FALSE, action |-> "", id |-> <<>>]
NoTarget       == [hasEvent |-> TRUE,  hasTarget |-> FALSE, action |-> "", id |-> <<>>]
PlainCell      == [hasEvent |-> TRUE,  hasTarget |-> TRUE,  action |-> "", id |-> <<>>]
ButtonClick(a, id) == [hasEvent |-> TRUE, hasTarget |-> TRUE, action |-> a, id |-> id]

\* Positions of the rows whose buttons the bounded user clicks.
ClickPositions(rows) ==
    IF session = "drain" THEN {1} \cap (1..Len(rows))
    ELSE {1, 2, Len(rows)} \cap (1..Len(rows))

ButtonIds(rows) ==
    { ToStringId(rows[p].id) : p \in ClickPositions(rows) }
      \cup (IF session = "drain" THEN {} ELSE {UndefinedText})

ClickEvents(rows) ==
    IF session = "drain"
    THEN { ButtonClick("del", id) : id \in ButtonIds(rows) }
    ELSE {NoBrowserEvent, NoTarget, PlainCell}
           \cup { ButtonClick(a, id) : a \in {"edit", "del"}, id \in ButtonIds(rows) }

\* Whether the event is charged to the session's budget: in a drain session
\* deleting the head row is free.
Cost(free) == IF free THEN 0 ELSE 1

Event(op, id, ok) == [op |-> op, id |-> id, ok |-> ok, n |-> Len(rowData)]

RowInit ==
    /\ \E e \in Envs : rowData = generateData(e)
    /\ last = [op |-> "mount", id |-> <<>>, ok |-> FALSE, n |-> 0]
    /\ session \in {"mixed", "drain"}
    /\ budget = MaxEvents

\* onCellClicked(event), with the answer `ok` the user gives if confirm() is shown
onCellClicked(ev, ok) ==
    /\ budget >= Cost(session = "drain")
    /\ budget' = budget - Cost(session = "drain")
    /\ IF ~ev.hasEvent \/ ~ev.hasTarget \/ ev.action = "" \/ ev.id = <<>>
       THEN /\ rowData' = rowData
            /\ last' = Event("none", <<>>, FALSE)
       ELSE IF ev.action = "del"
       THEN /\ rowData' = IF ok THEN DeleteUpdate(rowData, ev.id) ELSE rowData
            /\ last' = Event("del", ev.id, ok)
       ELSE IF ev.action = "edit"
       THEN /\ rowData' = ToggleUpdate(rowData, ev.id)
            /\ last' = Event("edit", ev.id, FALSE)
       ELSE /\ rowData' = rowData
            /\ last' = Event("none", <<>>, FALSE)
    /\ UNCHANGED <<session, gridVars, fmtVars>>

CellClicked ==
    \E ev \in ClickEvents(rowData), ok \in BOOLEAN :
        /\ (ev.action = "del" \/ ok)
        /\ onCellClicked(ev, ok)

\* onAddRow
onAddRow ==
    /\ budget >= 1
    /\ budget' = budget - 1
    /\ \E e \in Envs : rowData' = AddRowUpdate(rowData, e)
    /\ last' = Event("add", <<>>, FALSE)
    /\ UNCHANGED <<session, gridVars, fmtVars>>

\* Faulty variant of onResetData: the data is regenerated whatever confirm() returns.
onResetDataUnconfirmed(ok) ==
    /\ session = "mixed"
    /\ budget >= 1
    /\ budget' = budget - 1
    /\ \E e \in Envs : rowData' = generateData(e)
    /\ last' = Event("reset", <<>>, ok)
    /\ UNCHANGED <<session, gridVars, fmtVars>>

\* onResetData, with the answer `ok` given to confirm()
onResetData(ok) ==
    /\ session = "mixed"
    /\ budget >= 1
    /\ budget' = budget - 1
    /\ IF ~ok THEN rowData' = rowData
       ELSE \E e \in Envs : rowData' = generateData(e)
    /\ last' = Event("reset", <<>>, ok)
    /\ UNCHANGED <<session, gridVars, fmtVars>>

ResetData == \E ok \in BOOLEAN : onResetData(ok)

(***************************************************************************)
(* The widget side: grid API reference, deferred auto-fit, column state    *)
(* and the local-storage key 'ag-grid-column-state'.                       *)
(*                                                                         *)
(* A column layout is one of four abstract layouts.  The stored item is    *)
(* [present, json, v]: whether the key exists, whether its text is JSON    *)
(* that JSON.parse accepts, and the layout it encodes (or the raw text).   *)
(***************************************************************************)
ColumnLayouts == {"initial", "fit", "auto", "user"}

\* localStorage.getItem(...) === null
NoItem == [present |-> FALSE, json |-> FALSE, v |-> ""]

\* JSON.stringify(colState), as stored by setItem
Stringify(layout) == [present |-> TRUE, json |-> TRUE, v |-> layout]

\* Items another script of the origin, the user, or an older build may have
\* left under the key: the empty string and text that is not JSON.
ForeignItems == { [present |-> TRUE, json |-> FALSE, v |-> ""],
                  [present |-> TRUE, json |-> FALSE, v |-> "[{colId:"] }

\* !raw: null or the empty string
IsFalsy(raw) == ~raw.present \/ (~raw.json /\ raw.v = "")

\* JSON.parse(raw) returns (TRUE) or throws a SyntaxError (FALSE)
JsonParses(raw) == raw.json

\* Texts typed into the search box.
FilterTexts == {"", "vinho"}

\* What a widget-side handler did: its name, the alert it showed, the
\* exception that ended it, whether setColumnState was called, the item it
\* read from local storage, and the value of gridRef.current it
\* dereferenced ("-" if it reached no dereference).
Log(h, alert, threw, set, raw, deref) ==
    [h |-> h, alert |-> alert, threw |-> threw, set |-> set, raw |-> raw, deref |-> deref]

\* A handler whose first statement dereferences gridRef.current while it is
\* null: TypeError, nothing else happens.
NullDeref(h) ==
    /\ gridRef = "null"
    /\ gridLog' = Log(h, "", "TypeError", FALSE, NoItem, "null")
    /\ UNCHANGED <<gridRef, timers, columnState, storage, quickFilter, exported>>

GridIdle ==
    /\ gridRef = "null"
    /\ timers = 0
    /\ columnState = "initial"
    /\ storage = NoItem
    /\ quickFilter = ""
    /\ exported = FALSE
    /\ gridLog = Log("none", "", "", FALSE, NoItem, "-")

\* onGridReady(params): the widget reports readiness, once
onGridReady ==
    /\ gridRef = "null"
    /\ gridRef' = "api"
    /\ timers' = timers + 1
    /\ gridLog' = Log("onGridReady", "", "", FALSE, NoItem, "-")
    /\ UNCHANGED <<columnState, storage, quickFilter, exported, rowVars, fmtVars>>

\* The deferred callback () => params.api.sizeColumnsToFit()
SizeColumnsToFitTimer ==
    /\ timers > 0
    /\ timers' = timers - 1
    /\ columnState' = "fit"
    /\ gridLog' = Log("sizeColumnsToFit", "", "", FALSE, NoItem, "-")
    /\ UNCHANGED <<gridRef, storage, quickFilter, exported, rowVars, fmtVars>>

\* onFilterTextChange(e) with e.target.value = value
onFilterTextChange(value) ==
    /\ \/ NullDeref("onFilterTextChange")
       \/ /\ gridRef = "api"
          /\ quickFilter' = value
          /\ gridLog' = Log("onFilterTextChange", "", "", FALSE, NoItem, "api")
          /\ UNCHANGED <<gridRef, timers, columnState, storage, exported>>
    /\ UNCHANGED <<rowVars, fmtVars>>

FilterTextChange == \E value \in FilterTexts : onFilterTextChange(value)

\* onExportCSV
onExportCSV ==
    /\ \/ NullDeref("onExportCSV")
       \/ /\ gridRef = "api"
          /\ exported' = TRUE
          /\ gridLog' = Log("onExportCSV", "", "", FALSE, NoItem, "api")
          /\ UNCHANGED <<gridRef, timers, columnState, storage, quickFilter>>
    /\ UNCHANGED <<rowVars, fmtVars>>

\* onAutoSizeAll
onAutoSizeAll ==
    /\ \/ NullDeref("onAutoSizeAll")
       \/ /\ gridRef = "api"
          /\ columnState' = "auto"
          /\ gridLog' = Log("onAutoSizeAll", "", "", FALSE, NoItem, "api")
          /\ UNCHANGED <<gridRef, timers, storage, quickFilter, exported>>
    /\ UNCHANGED <<rowVars, fmtVars>>

\* saveColumnState
saveColumnState ==
    /\ \/ NullDeref("saveColumnState")
       \/ /\ gridRef = "api"
          /\ storage' = Stringify(columnState)
          /\ gridLog' = Log("saveColumnState", "Column state saved to localStorage",
                            "", FALSE, NoItem, "api")
          /\ UNCHANGED <<gridRef, timers, columnState, quickFilter, exported>>
    /\ UNCHANGED <<rowVars, fmtVars>>

\* restoreColumnState
restoreColumnState ==
    /\ IF IsFalsy(storage)
       THEN /\ gridLog' = Log("restoreColumnState", "No saved state", "", FALSE, storage, "-")
            /\ UNCHANGED columnState
       ELSE IF ~JsonParses(storage)
       THEN /\ gridLog' = Log("restoreColumnState", "", "SyntaxError", FALSE, storage, "-")
            /\ UNCHANGED columnState
       ELSE IF gridRef = "null"
       THEN /\ gridLog' = Log("restoreColumnState", "", "TypeError", FALSE, storage, "null")
            /\ UNCHANGED columnState
       ELSE /\ columnState' = storage.v
            /\ gridLog' = Log("restoreColumnState", "Column state restored", "", TRUE,
                              storage, "api")
    /\ UNCHANGED <<gridRef, timers, storage, quickFilter, exported, rowVars, fmtVars>>

\* The user drags or resizes a column of the rendered grid.
ColumnChangedByUser ==
    /\ gridRef = "api"
    /\ columnState' = "user"
    /\ UNCHANGED <<gridRef, timers, storage, quickFilter, exported, gridLog, rowVars, fmtVars>>

\* The key is written from outside the component.
StorageWrittenElsewhere ==
    /\ \E item \in ForeignItems \cup {Stringify("user")} : storage' = item
    /\ UNCHANGED <<gridRef, timers, columnState, quickFilter, exported, gridLog, rowVars, fmtVars>>

GridNext ==
    \/ onGridReady
    \/ SizeColumnsToFitTimer
    \/ FilterTextChange
    \/ onExportCSV
    \/ onAutoSizeAll
    \/ saveColumnState
    \/ restoreColumnState
    \/ ColumnChangedByUser
    \/ StorageWrittenElsewhere

(***************************************************************************)
(* formatCurrency over JavaScript values.                                  *)
(*                                                                         *)
(* A value is [t, v]: t its type tag, v a tuple.  A number is              *)
(* <<kind, neg, m, d>>: kind "finite", "NaN" or "Infinity", and for a      *)
(* finite number the sign and the decimal magnitude m / 10^d.              *)
(***************************************************************************)
Undefined == [t |-> "undefined", v |-> <<>>]
Null      == [t |-> "null", v |-> <<>>]
Bool(b)   == [t |-> "boolean", v |-> <<b>>]
Str(s)    == [t |-> "string", v |-> s]
Num(neg, m, d) == [t |-> "number", v |-> <<"finite", neg, m, d>>]
NaN       == [t |-> "number", v |-> <<"NaN", FALSE, 0, 0>>]
Infinity(neg) == [t |-> "number", v |-> <<"Infinity", neg, 0, 0>>]

\* fmtOut before formatCurrency has returned.
Pending   == [t |-> "pending", v |-> <<>>]

\* === on two values of the model
SameValue(a, b) == a.t = b.t /\ a.v = b.v

Pow10(k) == IF k = 0 THEN 1 ELSE IF k = 1 THEN 10 ELSE IF k = 2 THEN 100
            ELSE IF k = 3 THEN 1000 ELSE IF k = 4 THEN 10000 ELSE 100000

IsDigit(c) == \E d \in 0..9 : Digits[d + 1] = c

DigitVal(c) == CHOOSE d \in 0..9 : Digits[d + 1] = c

\* The number written by a sequence of decimal digits (0 for none).
RECURSIVE DigitsValue(_)
DigitsValue(ds) ==
    IF ds = <<>> THEN 0
    ELSE DigitsValue(SubSeq(ds, 1, Len(ds) - 1)) * 10 + DigitVal(ds[Len(ds)])

\* String.prototype.trim as StringToNumber applies it, for the white space
\* of the model's strings (the space character).
Trim(s) ==
    LET inked == { k \in 1..Len(s) : s[k] # " " }
    IN  IF inked = {} THEN <<>>
        ELSE SubSeq(s, CHOOSE k \in inked : \A j \in inked : k <= j,
                       CHOOSE k \in inked : \A j \in inked : j <= k)

InfinityText == <<"I", "n", "f", "i", "n", "i", "t", "y">>

\* Number(s) for a string s (ECMAScript StringToNumber): white space is
\* trimmed; the empty string is 0; then an optional sign followed by
\* Infinity or by a decimal literal (digits, digits. , digits.digits,
\* .digits); anything else is NaN.  Exponents and 0x/0o/0b literals are not
\* written by any string of the model and are not parsed.
StringToNumber(s) ==
    LET body   == Trim(s)
        signed == body # <<>> /\ body[1] \in {"-", "+"}
        neg    == body # <<>> /\ body[1] = "-"
        lit    == IF signed THEN Tail(body) ELSE body
        dots   == { k \in 1..Len(lit) : lit[k] = "." }
        dot    == IF dots = {} THEN Len(lit) + 1 ELSE CHOOSE k \in dots : TRUE
        whole  == SubSeq(lit, 1, dot - 1)
        frac   == SubSeq(lit, dot + 1, Len(lit))
    IN  IF body = <<>> THEN Num(FALSE, 0, 0)
        ELSE IF lit = InfinityText THEN Infinity(neg)
        ELSE IF /\ Cardinality(dots) <= 1
                /\ Len(whole) + Len(frac) >= 1
                /\ \A k \in 1..Len(whole) : IsDigit(whole[k])
                /\ \A k \in 1..Len(frac) : IsDigit(frac[k])
        THEN Num(neg, DigitsValue(whole \o frac), Len(frac))
        ELSE NaN

\* Number(value)
ToNumber(value) ==
    IF value.t = "number" THEN value
    ELSE IF value.t = "undefined" THEN NaN
    ELSE IF value.t = "null" THEN Num(FALSE, 0, 0)
    ELSE IF value.t = "boolean" THEN Num(FALSE, IF value.v[1] THEN 1 ELSE 0, 0)
    ELSE StringToNumber(value.v)

\* isNaN(num)
IsNaN(num) == num.v[1] = "NaN"

\* Three-digit, zero-padded group of the integer part.
Pad3(n) == <<DigitChar((n \div 100) % 10)>> \o Pad2(n % 100)

\* The integer part with pt-BR grouping: a "." before every three digits.
RECURSIVE Grouped(_)
Grouped(n) ==
    IF n < 1000 THEN NumberToString(n)
    ELSE Grouped(n \div 1000) \o <<".">> \o Pad3(n % 1000)

\* The no-break space (U+00A0) Intl puts between "R$" and the digits, and
\* the infinity sign (U+221E), each one character of the result.
NBSP == "U+00A0"

InfinitySign == "U+221E"

\* num.toLocaleString('pt-BR', { style: 'currency', currency: 'BRL' }): two
\* fraction digits, rounded half away from zero, "," as decimal separator.
ToLocaleCurrency(num) ==
    LET neg   == num.v[2]
        m     == num.v[3]
        d     == num.v[4]
        cents == IF d <= 2 THEN m * Pow10(2 - d)
                 ELSE (m + (Pow10(d - 2) \div 2)) \div Pow10(d - 2)
        sign  == IF neg THEN <<"-">> ELSE <<>>
    IN  IF num.v[1] = "Infinity"
        THEN Str(sign \o <<"R", "$", NBSP, InfinitySign>>)
        ELSE Str(sign \o <<"R", "$", NBSP>> \o Grouped(cents \div 100)
                      \o <<",">> \o Pad2(cents % 100))

\* formatCurrency(value)
formatCurrency(value) ==
    IF value.t = "undefined" \/ value.t = "null" THEN Str(<<>>)
    ELSE LET num == ToNumber(value)
         IN  IF IsNaN(num) THEN value
             ELSE ToLocaleCurrency(num)

\* Bound on the length of the strings handed to formatCurrency.
MaxStrLen == 3

FormatAlphabet == {"1", "5", ".", "-", " ", "a"}

StringsUpTo(n) == UNION { [1..k -> FormatAlphabet] : k \in 0..n }

\* The amounts generateData writes, which the 'amount' column hands to its
\* valueFormatter.
GeneratedAmounts == { RandomAmount(u) : u \in 0..(RandDen - 1) }

NumberInputs ==
    { Num(neg, m, d) : neg \in BOOLEAN, m \in {0, 1, 5, 125, 995, 1005, 1234567}, d \in 0..3 }
      \cup {NaN, Infinity(FALSE), Infinity(TRUE)}

\* params.value of a cell: the column is editable, so any value can reach
\* the formatter.  The inputs are kept in one set per type.
NullishInputs == {Undefined, Null}

BooleanInputs == {Bool(TRUE), Bool(FALSE)}

StringInputs ==
    { Str(s) : s \in StringsUpTo(MaxStrLen) \cup GeneratedAmounts \cup {InfinityText} }

\* The grid calls valueFormatter: params => formatCurrency(params.value)
FormatCall ==
    /\ fmtOut.t = "pending"
    /\ fmtOut' = formatCurrency(fmtIn)
    /\ UNCHANGED <<fmtIn, rowVars, gridVars>>

\* The cell's value changes (an edit, a new row) and is formatted afresh.
FormatInputChanges ==
    /\ fmtOut.t # "pending"
    /\ \/ \E value \in StringInputs : fmtIn' = value
       \/ \E value \in NumberInputs : fmtIn' = value
       \/ \E value \in NullishInputs : fmtIn' = value
       \/ \E value \in BooleanInputs : fmtIn' = value
    /\ fmtOut' = Pending
    /\ UNCHANGED <<rowVars, gridVars>>

FormatNext == FormatCall \/ FormatInputChanges

FmtIdle ==
    /\ fmtIn = Undefined
    /\ fmtOut = Pending

\* The component after mount.
Init == RowInit /\ GridIdle /\ FmtIdle

Next == CellClicked \/ onAddRow \/ ResetData

Spec == Init /\ [][Next]_vars

\* The widget-side handlers and formatCurrency neither read nor write the
\* row list: GridSpec and FormatSpec leave it out (an empty list, no session)
\* so that their states hold only what those handlers touch.
RowsAside ==
    /\ rowData = <<>>
    /\ last = [op |-> "none", id |-> <<>>, ok |-> FALSE, n |-> 0]
    /\ session = "mixed"
    /\ budget = 0

GridInit == RowsAside /\ GridIdle /\ FmtIdle

GridSpec == GridInit /\ [][GridNext]_vars

\* formatCurrency is handed any of its inputs from the start.
FormatInit ==
    /\ RowsAside
    /\ GridIdle
    /\ \/ fmtIn \in StringInputs
       \/ fmtIn \in NumberInputs
       \/ fmtIn \in NullishInputs
       \/ fmtIn \in BooleanInputs
    /\ fmtOut = Pending

FormatSpec == FormatInit /\ [][FormatNext]_vars

(***************************************************************************)
(* Properties of the row list (checked under Spec).                        *)
(***************************************************************************)
Generated == last.op = "mount" \/ (last.op = "reset" /\ last.ok)

Ids(rows) == { rows[k].id : k \in 1..Len(rows) }

Without(rows, k) == SubSeq(rows, 1, k - 1) \o SubSeq(rows, k + 1, Len(rows))

Matches(rows, t) == { k \in 1..Len(rows) : ToStringId(rows[k].id) = t }

\* C1: at mount and after every confirmed reset, whatever the list was
\* before, the row list is exactly 100 records with ids 1, 2, ..., 100 in
\* that order.
C1_GeneratedIdsSequential ==
    Generated => /\ Len(rowData) = 100
                 /\ \A k \in 1..100 : rowData[k].id = k

\* A confirmed reset was applied to a list that had lost a row.
C1_Witness ==
    /\ last.op = "reset" /\ last.ok /\ last.n = 98
    /\ Len(rowData) = 100 /\ rowData[100].id = 100

\* C2: adding a row lengthens the list by exactly 1, gives the new record
\* id = (maximum id before, or 0 for an empty list) + 1, puts it at the head
\* and leaves the previous records unchanged and in their order.
C2_AddRowPrependsNextId ==
    [][ last'.op = "add" =>
          /\ Len(rowData') = Len(rowData) + 1
          /\ Tail(rowData') = rowData
          /\ IF rowData = <<>> THEN rowData'[1].id = 1
             ELSE /\ rowData'[1].id - 1 \in Ids(rowData)
                  /\ \A n \in Ids(rowData) : n <= rowData'[1].id - 1 ]_vars

\* A row was added to the list emptied by 100 deletions: it has id 1.
C2_Witness ==
    /\ last.op = "add" /\ last.n = 0
    /\ Len(rowData) = 1 /\ rowData[1].id = 1

\* C3: a confirmed delete with target t shortens the list by exactly 1 and
\* removes exactly the record whose id, as a string, equals t, the others
\* unchanged and in order; if no record has id t the list is unchanged.
C3_DeleteRemovesExactlyTarget ==
    [][ (last'.op = "del" /\ last'.ok) =>
          LET hits == Matches(rowData, last'.id)
          IN  IF hits = {} THEN rowData' = rowData
              ELSE /\ Len(rowData') = Len(rowData) - 1
                   /\ \E k \in hits : rowData' = Without(rowData, k)
                   /\ Matches(rowData', last'.id) = {} ]_vars

\* The second of the 100 generated rows was deleted: rows 1 and 3 are now
\* adjacent and the tail is intact.
C3_Witness ==
    /\ last.op = "del" /\ last.ok /\ last.id = <<"2">> /\ last.n = 100
    /\ Len(rowData) = 99
    /\ rowData[1].id = 1 /\ rowData[2].id = 3 /\ rowData[99].id = 100

\* C4: a toggle with target t flips `active` of the record whose id, as a
\* string, equals t and changes nothing else: the other fields of that
\* record, every other record, the length and the order.
C4_ToggleFlipsOnlyActive ==
    [][ last'.op = "edit" =>
          /\ Len(rowData') = Len(rowData)
          /\ \A k \in 1..Len(rowData) :
                /\ [rowData'[k] EXCEPT !.active = TRUE] = [rowData[k] EXCEPT !.active = TRUE]
                /\ (rowData'[k].active # rowData[k].active)
                      <=> (ToStringId(rowData[k].id) = last'.id)
          /\ Cardinality({ k \in 1..Len(rowData) : rowData'[k] # rowData[k] }) <= 1 ]_vars

\* The row with id 3, generated inactive, was toggled and is now active.
C4_Witness ==
    /\ last.op = "edit" /\ last.id = <<"3">>
    /\ \E k \in 1..Len(rowData) : rowData[k].id = 3 /\ rowData[k].active

\* C5: a declined confirmation of a delete or of a reset leaves the row
\* list as it was; the list shrinks, or is replaced by a reset, only in a
\* step whose confirmation was accepted.
C5_DestructiveNeedsConfirm ==
    [][ /\ (last'.op \in {"del", "reset"} /\ ~last'.ok) => rowData' = rowData
        /\ Len(rowData') < Len(rowData) => (last'.op \in {"del", "reset"} /\ last'.ok)
        /\ (last'.op = "reset" /\ rowData' # rowData) => last'.ok ]_vars

\* A reset was declined on a list that had been modified: it stays modified.
C5_Witness ==
    /\ last.op = "reset" /\ ~last.ok
    /\ Len(rowData) = 101 /\ rowData[1].id = 101

\* C6: for every record produced by generation, `active` is false if and
\* only if the record's id is divisible by 3.
C6_GeneratedActiveIffNotMultipleOf3 ==
    Generated => \A k \in 1..Len(rowData) :
                    (rowData[k].active = FALSE) <=> (rowData[k].id % 3 = 0)

\* Data regenerated by a confirmed reset after other events of the session.
C6_Witness ==
    /\ last.op = "reset" /\ last.ok /\ budget = 0
    /\ ~rowData[3].active /\ rowData[4].active

\* C9: in every reachable state no two records of the row list have the
\* same id.
C9_IdsUnique ==
    \A j, k \in 1..Len(rowData) : j # k => rowData[j].id # rowData[k].id

\* The tail row (id 100) was deleted and a row added: id 100 is handed out
\* again, and is still the only one.
C9_Witness ==
    /\ last.op = "add" /\ last.n = 99
    /\ rowData[1].id = 100 /\ rowData[100].id = 99

(***************************************************************************)
(* Properties of the widget side (checked under GridSpec).                 *)
(***************************************************************************)
\* C7: on 'restore column state', a missing or invalid saved column state
\* surfaces an alert, and in the missing case setColumnState is not called.
C7_RestoreAlertsOnMissingOrInvalid ==
    gridLog.h = "restoreColumnState" =>
        /\ (IsFalsy(gridLog.raw) \/ ~JsonParses(gridLog.raw)) => gridLog.alert # ""
        /\ IsFalsy(gridLog.raw) => (~gridLog.set /\ columnState \in ColumnLayouts)

\* C10: whenever a handler that forwards to the widget API runs,
\* gridRef.current holds the API and is not null; and the deferred auto-fit
\* call happens only after the grid-ready event.
C10_GridRefSetBeforeUse ==
    /\ gridLog.deref # "null"
    /\ gridLog.h = "sizeColumnsToFit" => gridRef = "api"

(***************************************************************************)
(* Properties of formatCurrency (checked under FormatSpec).                *)
(***************************************************************************)
\* A numeric value: a number other than NaN, or a string that, white space
\* aside, writes a number.
IsNumeric(value) ==
    \/ value.t = "number" /\ ~IsNaN(value)
    \/ value.t = "string" /\ Trim(value.v) # <<>> /\ ~IsNaN(StringToNumber(value.v))

IsCurrencyString(value) ==
    /\ value.t = "string"
    /\ \E k \in 1..2 : Len(value.v) >= k + 2 /\ SubSeq(value.v, k, k + 2) = <<"R", "$", NBSP>>

\* C8: formatCurrency returns the empty string for null and undefined, its
\* argument unchanged for every non-numeric value, and a currency string
\* (not the raw argument) for every numeric value.
C8_FormatCurrencyContract ==
    fmtOut.t # "pending" =>
        IF fmtIn.t \in {"undefined", "null"} THEN SameValue(fmtOut, Str(<<>>))
        ELSE IF IsNumeric(fmtIn) THEN IsCurrencyString(fmtOut) /\ ~SameValue(fmtOut, fmtIn)
        ELSE SameValue(fmtOut, fmtIn)

====
